---------------------------- MODULE Spec2Model ----------------------------
(***************************************************************************)
(* A model of Grbl's motion planner, src/stepper_plan.c: the ring buffer   *)
(* of blocks, plan_buffer_line, the three passes of planner_recalculate    *)
(* and the acceleration-management switch, run by the producer (the        *)
(* foreground program) and interleaved with the stepper interrupt, which   *)
(* advances block_buffer_tail.                                             *)
(*                                                                         *)
(* Numbers.  The C code computes in double precision.  A double is         *)
(* modelled by an exact rational <<n, d>> with d > 0 in lowest terms; the  *)
(* not-a-number 0.0/0.0 is <<0, 0>>.  sqrt is exact on the squares of      *)
(* rationals; the moves and settings below are chosen so that every        *)
(* radicand the planner forms is such a square.                            *)
(***************************************************************************)
EXTENDS Integers, Sequences, FiniteSets, TLC

(***************************************************************************)
(* Bounds of the model and constants of the program.                       *)
(***************************************************************************)
\* Slots of the ring (config.h; block_buffer is declared with it).
BLOCK_BUFFER_SIZE == 4

\* Calls the producer makes in a run of the model.
MaxCalls == 4

\* Rate updates per second (config.h; used by calculate_trapezoid_for_block).
ACCELERATION_TICKS_PER_SECOND == 10

\* settings (settings.c): acceleration, max_jerk, steps_per_mm[3].
settings ==
    [acceleration |-> 4, max_jerk |-> 200, steps_per_mm |-> <<1, 1, 1>>]

X_DIRECTION_BIT == 0
Y_DIRECTION_BIT == 1
Z_DIRECTION_BIT == 2

(***************************************************************************)
(* Doubles as rationals.                                                   *)
(***************************************************************************)
RECURSIVE GCD(_, _)
GCD(a, b) == IF b = 0 THEN a ELSE GCD(b, a % b)

Abs(i) == IF i < 0 THEN 0 - i ELSE i

Sign(i) == IF i < 0 THEN 0 - 1 ELSE IF i = 0 THEN 0 ELSE 1

NaN == <<0, 0>>

\* n/d as a double: lowest terms, d > 0; x/0 is NaN (0/0) or an infinity.
Rat(n, d) ==
    IF d = 0 THEN <<Sign(n), 0>>
    ELSE LET g == GCD(Abs(n), Abs(d))
         IN  <<Sign(d) * (n \div g), Abs(d) \div g>>

R(i) == <<i, 1>>

IsNaN(a) == a = NaN

RMul(a, b) == IF IsNaN(a) \/ IsNaN(b) THEN NaN ELSE Rat(a[1] * b[1], a[2] * b[2])

RDiv(a, b) == IF IsNaN(a) \/ IsNaN(b) THEN NaN ELSE Rat(a[1] * b[2], a[2] * b[1])

RAdd(a, b) ==
    IF IsNaN(a) \/ IsNaN(b) THEN NaN
    ELSE Rat(a[1] * b[2] + b[1] * a[2], a[2] * b[2])

RSub(a, b) == RAdd(a, <<0 - b[1], b[2]>>)

\* a < b, a > b on doubles: false when either is NaN.
RLess(a, b) == ~IsNaN(a) /\ ~IsNaN(b) /\ a[1] * b[2] < b[1] * a[2]

RGreater(a, b) == RLess(b, a)

RECURSIVE SqrtSearch(_, _, _)
SqrtSearch(n, lo, hi) ==
    IF lo >= hi THEN lo
    ELSE LET mid == (lo + hi + 1) \div 2
         IN  IF mid * mid <= n THEN SqrtSearch(n, mid, hi)
             ELSE SqrtSearch(n, lo, mid - 1)

\* The integer square root.
ISqrt(n) == SqrtSearch(n, 0, n)

\* sqrt(): NaN of a negative number and of NaN; sqrt(n/d) = sqrt(n*d)/d.
RSqrt(a) ==
    IF IsNaN(a) \/ a[1] < 0 THEN NaN
    ELSE IF a[2] = 0 THEN a
    ELSE Rat(ISqrt(a[1] * a[2]), a[2])

\* pow(x, 2)
RSquare(a) == RMul(a, a)

\* ceil() of a finite double, as an integer.
Ceil(a) ==
    IF a[1] >= 0 THEN (a[1] + a[2] - 1) \div a[2]
    ELSE 0 - ((0 - a[1]) \div a[2])

INT32_MAX == 2147483647

INT32_MIN == 0 - INT32_MAX - 1

\* What converting ceil(NaN) to int32_t may give: undefined in C; the usual
\* builds give 0 or INT32_MIN.
NaNToInt32 == {0, INT32_MIN}

\* int32_t addition, negation and subtraction, which wrap.
Add32(a, b) ==
    IF a >= 0 /\ b >= 0 /\ a > INT32_MAX - b
    THEN (a - INT32_MAX - 1) + (b - INT32_MAX - 1)
    ELSE IF a < 0 /\ b < 0 /\ a < INT32_MIN - b
    THEN (a + INT32_MAX + 1) + (b + INT32_MAX + 1)
    ELSE a + b

Neg32(a) == IF a = INT32_MIN THEN INT32_MIN ELSE 0 - a

Sub32(a, b) == IF b = INT32_MIN THEN Add32(Add32(a, INT32_MAX), 1)
               ELSE Add32(a, Neg32(b))

\* (int32_t)ceil(a); g is what the conversion gives for a NaN or an infinity.
CeilToInt32(a, g) == IF IsNaN(a) \/ a[2] = 0 THEN g ELSE Ceil(a)

Max(a, b) == IF a > b THEN a ELSE b


(***************************************************************************)
(* Blocks.                                                                 *)
(***************************************************************************)
\* block_buffer is a global: every field starts as zero.
ZeroBlock ==
    [steps_x |-> 0, steps_y |-> 0, steps_z |-> 0, step_event_count |-> 0,
     speed_x |-> R(0), speed_y |-> R(0), speed_z |-> R(0),
     nominal_speed |-> R(0), nominal_rate |-> 0, millimeters |-> R(0),
     rate_delta |-> 0, direction_bits |-> 0, entry_factor |-> R(0),
     initial_rate |-> 0, accelerate_until |-> 0, decelerate_after |-> 0]

\* A pointer to a block: NULL, or <<i>> for &block_buffer[i].
NULL == <<>>

Ptr(i) == <<i>>

Slots == 0 .. (BLOCK_BUFFER_SIZE - 1)

InBuffer(p) == p # NULL /\ p[1] \in Slots

\* C's % truncates toward zero: (-1) % n is -1.
CMod(a, n) == IF a >= 0 THEN a % n ELSE 0 - ((0 - a) % n)

(***************************************************************************)
(* The kinematics.                                                         *)
(***************************************************************************)
estimate_acceleration_distance(initial_rate, target_rate, acceleration) ==
    RDiv(RSub(RSquare(target_rate), RSquare(initial_rate)),
         RMul(R(2), acceleration))

intersection_distance(initial_rate, final_rate, acceleration, distance) ==
    RDiv(RAdd(RSub(RMul(RMul(R(2), acceleration), distance),
                   RSquare(initial_rate)),
              RSquare(final_rate)),
         RMul(R(4), acceleration))

max_allowable_speed(acceleration, target_velocity, distance) ==
    RSqrt(RSub(RSquare(target_velocity),
               RMul(RMul(R(2), acceleration), distance)))

junction_jerk(before, after) ==
    RSqrt(RAdd(RAdd(RSquare(RSub(before.speed_x, after.speed_x)),
                    RSquare(RSub(before.speed_y, after.speed_y))),
               RSquare(RSub(before.speed_z, after.speed_z))))

\* The fields calculate_trapezoid_for_block stores, for a block and the two
\* factors; g is what (int32_t)NaN gives.
calculate_trapezoid_for_block(block, entry_factor, exit_factor, g) ==
    LET initial_rate == CeilToInt32(RMul(R(block.nominal_rate), entry_factor), g)
        final_rate == CeilToInt32(RMul(R(block.nominal_rate), entry_factor), g)
        acceleration_per_minute ==
            block.rate_delta * ACCELERATION_TICKS_PER_SECOND * 60
        accelerate_steps ==
            CeilToInt32(estimate_acceleration_distance(R(initial_rate),
                R(block.nominal_rate), R(acceleration_per_minute)), g)
        decelerate_steps ==
            CeilToInt32(estimate_acceleration_distance(R(block.nominal_rate),
                R(final_rate), R(0 - acceleration_per_minute)), g)
        plateau_steps ==
            Sub32(Sub32(block.step_event_count, accelerate_steps),
                  decelerate_steps)
        accelerate_steps2 ==
            CeilToInt32(intersection_distance(R(initial_rate), R(final_rate),
                R(acceleration_per_minute), R(block.step_event_count)), g)
        plateau_steps2 ==
            Sub32(block.step_event_count,
                  Add32(accelerate_steps2, accelerate_steps2))
    IN  IF plateau_steps < 0
        THEN [block EXCEPT !.initial_rate = initial_rate,
                           !.accelerate_until = accelerate_steps2,
                           !.decelerate_after =
                               Add32(accelerate_steps2, plateau_steps2)]
        ELSE [block EXCEPT !.initial_rate = initial_rate,
                           !.accelerate_until = accelerate_steps,
                           !.decelerate_after =
                               Add32(accelerate_steps, plateau_steps)]

\* A planner_reverse_pass_kernel that lets every block enter at full speed.
FullSpeedKernel(hasPrevious, previous, current, hasNext, next) == R(1)

\* The entry_factor planner_reverse_pass_kernel stores in current (not NULL);
\* hasPrevious and hasNext say which neighbours are not NULL.
planner_reverse_pass_kernel(hasPrevious, previous, current, hasNext, next) ==
    LET exit_factor == IF hasNext THEN next.entry_factor ELSE R(0)
        jerk == junction_jerk(previous, current)
        limited == IF RGreater(jerk, R(settings.max_jerk))
                   THEN RDiv(R(settings.max_jerk), jerk)
                   ELSE R(1)
        max_entry_speed ==
            max_allowable_speed(R(0 - settings.acceleration),
                RMul(current.nominal_speed, exit_factor), current.millimeters)
        max_entry_factor == RDiv(max_entry_speed, current.nominal_speed)
    IN  IF ~hasPrevious THEN R(0)
        ELSE IF RGreater(limited, exit_factor) /\ RLess(max_entry_factor, limited)
             THEN max_entry_factor
             ELSE limited

\* A planner_forward_pass_kernel that stores max_entry_factor without its
\* two tests.
UntestedForwardKernel(previous, current) ==
    RDiv(max_allowable_speed(R(0 - settings.acceleration),
             RMul(current.nominal_speed, previous.entry_factor),
             previous.millimeters),
         current.nominal_speed)

\* The entry_factor planner_forward_pass_kernel leaves in current (not NULL),
\* reading previous.
planner_forward_pass_kernel(previous, current) ==
    LET max_entry_speed ==
            max_allowable_speed(R(0 - settings.acceleration),
                RMul(current.nominal_speed, previous.entry_factor),
                previous.millimeters)
        max_entry_factor == RDiv(max_entry_speed, current.nominal_speed)
    IN  IF RLess(previous.entry_factor, current.entry_factor)
           /\ RLess(max_entry_factor, current.entry_factor)
        THEN max_entry_factor
        ELSE current.entry_factor

(***************************************************************************)
(* The state.                                                              *)
(***************************************************************************)
VARIABLES
    block_buffer,             \* the ring of blocks
    block_buffer_head,        \* index of the next block to be pushed
    block_buffer_tail,        \* index of the block to process now
    acceleration_management,  \* acceleration management active?
    pc,                       \* where the producer is
    line,                     \* the arguments of the last plan_buffer_line
                              \* call, cleared once a block is built of them
    next_buffer_head,         \* plan_buffer_line's local
    block_index,              \* planner_reverse_pass's local
    block,                    \* planner_reverse_pass's window block[3]
    calls,                    \* calls the producer has made
    queued,                   \* blocks published and not yet consumed
    parked                    \* the call under way found the queue full

vars ==
    <<block_buffer, block_buffer_head, block_buffer_tail,
      acceleration_management, pc, line, next_buffer_head, block_index,
      block, calls, queued, parked>>

\* The calls of plan_buffer_line the model makes: a fast move along +X (an odd
\* number of steps), the same move along -X, a fast move along +Y (an even
\* number of steps), and a move of no steps.
Move(x, y, z, us, mm) ==
    [steps_x |-> x, steps_y |-> y, steps_z |-> z, microseconds |-> us,
     millimeters |-> mm]

NoLine == Move(0, 0, 0, 0, R(0))

Lines ==
    { Move(3, 0, 0, 1000000, R(3)), Move(0 - 3, 0, 0, 1000000, R(3)),
      Move(0, 4, 0, 1000000, R(4)), Move(0, 0, 0, 1000000, R(0)) }

\* What a read through a null pointer, or of memory outside block_buffer, may
\* find in the fields the passes read: the speeds and the entry_factor.
StrayReads ==
    { [ZeroBlock EXCEPT !.speed_x = v[1], !.speed_y = v[2], !.entry_factor = e] :
        v \in {<<R(0), R(0)>>, <<R(180), R(240)>>},
        e \in {R(0), R(1)} }

\* *p in the buffer buf, where a read elsewhere finds stray.
Deref(buf, p, stray) == IF InBuffer(p) THEN buf[p[1]] ELSE stray

\* What a read of *p may find outside the buffer, for a pointer that is read
\* only when it is not NULL; ZeroBlock stands for "not read there".
StraysAt(p) == IF p = NULL \/ InBuffer(p) THEN {ZeroBlock} ELSE StrayReads

NoWindow == <<NULL, NULL, NULL>>

\* plan_init().
Init ==
    /\ block_buffer = [i \in Slots |-> ZeroBlock]
    /\ block_buffer_head = 0
    /\ block_buffer_tail = 0
    /\ acceleration_management = TRUE
    /\ pc = "idle"
    /\ line = NoLine
    /\ next_buffer_head = 0
    /\ block_index = 0
    /\ block = NoWindow
    /\ calls = 0
    /\ queued = 0
    /\ parked = FALSE

(***************************************************************************)
(* plan_buffer_line.                                                       *)
(***************************************************************************)
\* A BufferFull that never holds: plan_buffer_line without its wait for room.
NeverFull(tail, next_head) == FALSE

\* The queue is full for a producer about to move head to next_head.
BufferFull(tail, next_head) == tail = next_head

\* The call, and the computation of next_buffer_head.
PlanBufferLine(l) ==
    /\ pc = "idle"
    /\ calls < MaxCalls
    /\ calls' = calls + 1
    /\ line' = l
    /\ next_buffer_head' = (block_buffer_head + 1) % BLOCK_BUFFER_SIZE
    /\ pc' = "wait"
    /\ parked' = BufferFull(block_buffer_tail, next_buffer_head')
    /\ UNCHANGED <<block_buffer, block_buffer_head, block_buffer_tail,
                   acceleration_management, block_index, block, queued>>

DirectionBits(l) ==
    (IF l.steps_x < 0 THEN 2 ^ X_DIRECTION_BIT ELSE 0)
    + (IF l.steps_y < 0 THEN 2 ^ Y_DIRECTION_BIT ELSE 0)
    + (IF l.steps_z < 0 THEN 2 ^ Z_DIRECTION_BIT ELSE 0)

\* The step counts, written before the zero-length test.
WithSteps(old, l) ==
    [old EXCEPT !.steps_x = Abs(l.steps_x),
                !.steps_y = Abs(l.steps_y),
                !.steps_z = Abs(l.steps_z),
                !.step_event_count =
                    Max(Abs(l.steps_x), Max(Abs(l.steps_y), Abs(l.steps_z)))]

\* Whether plan_buffer_line bails out: a zero-length block.
ZeroLength(b) == b.step_event_count = 0

\* The block plan_buffer_line builds in the slot at head, over what the slot
\* held, before it moves head.
BuildBlock(old, l, accel, g) ==
    LET b1 == WithSteps(old, l)
        multiplier == Rat(60 * 1000000, l.microseconds)
        travel_per_step == RDiv(l.millimeters, R(b1.step_event_count))
        b2 == [b1 EXCEPT
                 !.speed_x = RDiv(RMul(R(b1.steps_x), multiplier),
                                  R(settings.steps_per_mm[1])),
                 !.speed_y = RDiv(RMul(R(b1.steps_y), multiplier),
                                  R(settings.steps_per_mm[2])),
                 !.speed_z = RDiv(RMul(R(b1.steps_z), multiplier),
                                  R(settings.steps_per_mm[3])),
                 !.nominal_speed = RMul(l.millimeters, multiplier),
                 !.nominal_rate =
                     CeilToInt32(RMul(R(b1.step_event_count), multiplier), g),
                 !.rate_delta =
                     CeilToInt32(
                         RDiv(RDiv(R(settings.acceleration * 60),
                                   R(ACCELERATION_TICKS_PER_SECOND)),
                              travel_per_step), g)]
        b3 == IF accel
              THEN calculate_trapezoid_for_block(b2, R(0), R(0), g)
              ELSE [b2 EXCEPT !.accelerate_until = 0,
                              !.decelerate_after = 0,
                              !.rate_delta = 0]
    IN  IF ZeroLength(b1) THEN b1
        ELSE [b3 EXCEPT !.direction_bits = DirectionBits(l)]

\* The block is set up in the slot at head, which the stepper does not look
\* at.
SetUpBlock ==
    /\ pc = "wait"
    /\ \E g \in NaNToInt32 :
         block_buffer' =
             [block_buffer EXCEPT ![block_buffer_head] =
                 BuildBlock(@, line, acceleration_management, g)]
    /\ UNCHANGED <<block_buffer_tail, acceleration_management, block_index,
                   block, calls>>

\* plan_buffer_line returns before it has moved head.
ReturnEarly ==
    /\ pc' = "idle"
    /\ next_buffer_head' = 0
    /\ parked' = FALSE
    /\ UNCHANGED <<block_buffer_head, line, queued>>

\* plan_buffer_line from the set-up of the block to the store of head, which
\* it does not reach with a zero-length block.
SetUp ==
    /\ SetUpBlock
    /\ IF ZeroLength(block_buffer'[block_buffer_head])
       THEN ReturnEarly
       ELSE /\ pc' = "publish"
            /\ line' = NoLine
            /\ UNCHANGED <<block_buffer_head, next_buffer_head, queued,
                           parked>>

\* A Build that tests for the zero-length block only after the store of
\* head.
BuildThenBail ==
    /\ ~BufferFull(block_buffer_tail, next_buffer_head)
    /\ SetUpBlock
    /\ IF ZeroLength(block_buffer'[block_buffer_head])
       THEN /\ pc' = "idle"
            /\ block_buffer_head' = next_buffer_head
            /\ queued' = queued + 1
            /\ next_buffer_head' = 0
            /\ parked' = FALSE
            /\ UNCHANGED line
       ELSE /\ pc' = "publish"
            /\ line' = NoLine
            /\ UNCHANGED <<block_buffer_head, next_buffer_head, queued,
                           parked>>

\* A Build that returns, the move dropped, when it finds no room.
BuildOrGiveUp ==
    IF BufferFull(block_buffer_tail, next_buffer_head)
    THEN /\ pc = "wait"
         /\ ReturnEarly
         /\ UNCHANGED <<block_buffer, block_buffer_tail,
                        acceleration_management, block_index, block, calls>>
    ELSE SetUp

\* The wait for room is over (while(block_buffer_tail == next_buffer_head)
\* { sleep_mode(); }) and the block is set up.
Build ==
    /\ ~BufferFull(block_buffer_tail, next_buffer_head)
    /\ SetUp

\* block_buffer_head = next_buffer_head, the test of the flag that follows
\* it and, with acceleration management, the first lines of
\* planner_reverse_pass, which read the head just stored.
Publish ==
    /\ pc = "publish"
    /\ block_buffer_head' = next_buffer_head
    /\ queued' = queued + 1
    /\ pc' = IF acceleration_management THEN "reverse" ELSE "constant"
    /\ block_index' = IF acceleration_management THEN next_buffer_head ELSE 0
    /\ block' = NoWindow
    /\ UNCHANGED <<block_buffer, block_buffer_tail, acceleration_management,
                   line, next_buffer_head, calls, parked>>

\* The slot plan_buffer_line's block points at, once head has moved.
BuiltSlot == (next_buffer_head + BLOCK_BUFFER_SIZE - 1) % BLOCK_BUFFER_SIZE

\* calculate_trapezoid_for_block(block, 1.0, 1.0), without acceleration
\* management; plan_buffer_line returns.
ConstantRate ==
    /\ pc = "constant"
    /\ \E g \in NaNToInt32 :
         block_buffer' =
             [block_buffer EXCEPT ![BuiltSlot] =
                 calculate_trapezoid_for_block(@, R(1), R(1), g)]
    /\ pc' = "idle"
    /\ next_buffer_head' = 0
    /\ parked' = FALSE
    /\ UNCHANGED <<block_buffer_head, block_buffer_tail,
                   acceleration_management, line, block_index, block,
                   calls, queued>>

(***************************************************************************)
(* planner_recalculate: the reverse pass.                                  *)
(***************************************************************************)
\* The window after the reverse pass loads &block_buffer[i].
ReverseShift(w, i) == <<Ptr(i), w[1], w[2]>>

\* The index the reverse pass goes to next: (block_index-1) % BLOCK_BUFFER_SIZE
\* on a signed index.
ReverseStep(i) == CMod(i - 1, BLOCK_BUFFER_SIZE)

\* block_buffer after planner_reverse_pass_kernel(previous, current, next) on
\* pointers; sp and sn are what reads outside the buffer find.  A store
\* through a current outside the buffer leaves the buffer as it is.
ReverseKernel(previous, current, nxt, sp, sn) ==
    IF InBuffer(current)
    THEN [block_buffer EXCEPT ![current[1]].entry_factor =
             planner_reverse_pass_kernel(previous # NULL,
                 Deref(block_buffer, previous, sp), block_buffer[current[1]],
                 nxt # NULL, Deref(block_buffer, nxt, sn))]
    ELSE block_buffer

\* One turn of the loop: while(block_index != block_buffer_tail) { ... }
ReverseLoop ==
    /\ pc = "reverse"
    /\ block_index # block_buffer_tail
    /\ block' = ReverseShift(block, block_index)
    /\ \E sp \in StraysAt(block'[1]), sn \in StraysAt(block'[3]) :
         block_buffer' = ReverseKernel(block'[1], block'[2], block'[3], sp, sn)
    /\ block_index' = ReverseStep(block_index)
    /\ UNCHANGED <<block_buffer_head, block_buffer_tail,
                   acceleration_management, pc, line, next_buffer_head,
                   calls, queued, parked>>

\* The loop ends; planner_reverse_pass_kernel(NULL, block[0], block[1]).
ReverseEnd ==
    /\ pc = "reverse"
    /\ block_index = block_buffer_tail
    /\ \E sn \in StraysAt(block[2]) :
         block_buffer' = ReverseKernel(NULL, block[1], block[2], ZeroBlock, sn)
    /\ pc' = "forward"
    /\ block_index' = 0
    /\ block' = NoWindow
    /\ UNCHANGED <<block_buffer_head, block_buffer_tail,
                   acceleration_management, line, next_buffer_head, calls, queued, parked>>

(***************************************************************************)
(* planner_recalculate: the forward pass.  The pass reads tail once, as it *)
(* starts, and stores only entry_factor, which the stepper does not read:  *)
(* it is one step.                                                         *)
(***************************************************************************)
\* The window after the forward pass loads &block_buffer[i].
ForwardShift(w, i) == <<w[2], w[3], Ptr(i)>>

\* The buffer after planner_forward_pass_kernel(previous, current, next) on
\* pointers: nothing for a NULL current; a NULL previous is read all the
\* same, and the read finds sp.
ForwardKernel(buf, previous, current, sp) ==
    IF current = NULL THEN buf
    ELSE [buf EXCEPT ![current[1]].entry_factor =
             planner_forward_pass_kernel(Deref(buf, previous, sp),
                                         buf[current[1]])]

\* The loop of planner_forward_pass from index i with window w, and the call
\* planner_forward_pass_kernel(block[1], block[2], NULL) after it.
RECURSIVE ForwardFrom(_, _, _, _, _)
ForwardFrom(buf, i, w, head, sp) ==
    IF i # head
    THEN LET w2 == ForwardShift(w, i)
         IN  ForwardFrom(ForwardKernel(buf, w2[1], w2[2], sp),
                         (i + 1) % BLOCK_BUFFER_SIZE, w2, head, sp)
    ELSE ForwardKernel(buf, w[2], w[3], sp)

planner_forward_pass(buf, tail, head, sp) ==
    ForwardFrom(buf, tail, NoWindow, head, sp)

ForwardPass ==
    /\ pc = "forward"
    /\ \E sp \in StrayReads :
         block_buffer' =
             planner_forward_pass(block_buffer, block_buffer_tail,
                                  block_buffer_head, sp)
    /\ pc' = "trapezoids"
    /\ UNCHANGED <<block_buffer_head, block_buffer_tail,
                   acceleration_management, line, next_buffer_head,
                   block_index, block, calls, queued, parked>>

(***************************************************************************)
(* planner_recalculate: the trapezoids.  The pass reads tail once, as it   *)
(* starts: it is one step.                                                 *)
(***************************************************************************)
\* The buffer after calculate_trapezoid_for_block(p, p->entry_factor, exit)
\* on a pointer: a NULL p is read and written outside the buffer.
TrapezoidOf(buf, p, exit_factor, g) ==
    IF p = NULL THEN buf
    ELSE [buf EXCEPT ![p[1]] =
             calculate_trapezoid_for_block(@, @.entry_factor, exit_factor, g)]

\* The loop of planner_recalculate_trapezoids from index i with the local
\* next = nxt, and the call on next after it.
RECURSIVE TrapezoidsFrom(_, _, _, _, _)
TrapezoidsFrom(buf, i, nxt, head, g) ==
    IF i # head
    THEN TrapezoidsFrom(TrapezoidOf(buf, nxt, buf[i].entry_factor, g),
                        (i + 1) % BLOCK_BUFFER_SIZE, Ptr(i), head, g)
    ELSE TrapezoidOf(buf, nxt, R(0), g)

planner_recalculate_trapezoids(buf, tail, head, g) ==
    TrapezoidsFrom(buf, tail, NULL, head, g)

\* planner_recalculate_trapezoids; planner_recalculate and plan_buffer_line
\* return.
Trapezoids ==
    /\ pc = "trapezoids"
    /\ \E g \in NaNToInt32 :
         block_buffer' =
             planner_recalculate_trapezoids(block_buffer, block_buffer_tail,
                                            block_buffer_head, g)
    /\ pc' = "idle"
    /\ next_buffer_head' = 0
    /\ parked' = FALSE
    /\ UNCHANGED <<block_buffer_head, block_buffer_tail,
                   acceleration_management, line, block_index, block,
                   calls, queued>>

(***************************************************************************)
(* The switch of acceleration management, and the stepper.                 *)
(***************************************************************************)
\* st_synchronize() returns once the stepper has drained the queue.
Synchronized == block_buffer_head = block_buffer_tail

\* A switch that stores the flag at once, without st_synchronize().
SwitchAtOnce(on) ==
    /\ pc = "idle"
    /\ calls < MaxCalls
    /\ calls' = calls + 1
    /\ acceleration_management' = on
    /\ UNCHANGED <<block_buffer, block_buffer_head, block_buffer_tail, pc,
                   line, next_buffer_head, block_index, block, queued,
                   parked>>

\* plan_enable_acceleration_management / plan_disable_acceleration_management
\* called: nothing to do when the flag already has the value.
SetAccelerationManagement(on) ==
    /\ pc = "idle"
    /\ calls < MaxCalls
    /\ calls' = calls + 1
    /\ pc' = IF acceleration_management = on THEN "idle"
             ELSE IF on THEN "sync_enable" ELSE "sync_disable"
    /\ UNCHANGED <<block_buffer, block_buffer_head, block_buffer_tail,
                   acceleration_management, line, next_buffer_head,
                   block_index, block, queued, parked>>

\* st_synchronize() has returned; the flag is stored.
StoreAccelerationManagement ==
    /\ pc \in {"sync_enable", "sync_disable"}
    /\ Synchronized
    /\ acceleration_management' = (pc = "sync_enable")
    /\ pc' = "idle"
    /\ UNCHANGED <<block_buffer, block_buffer_head, block_buffer_tail, line,
                   next_buffer_head, block_index, block, calls,
                   queued, parked>>

\* The stepper interrupt is done with the block at tail.
StepperAdvance ==
    /\ block_buffer_head # block_buffer_tail
    /\ block_buffer_tail' = (block_buffer_tail + 1) % BLOCK_BUFFER_SIZE
    /\ queued' = queued - 1
    /\ UNCHANGED <<block_buffer, block_buffer_head, acceleration_management,
                   pc, line, next_buffer_head, block_index, block, calls, parked>>

Producer ==
    \/ \E l \in Lines : PlanBufferLine(l)
    \/ Build
    \/ Publish
    \/ ConstantRate
    \/ ReverseLoop
    \/ ReverseEnd
    \/ ForwardPass
    \/ Trapezoids
    \/ \E on \in BOOLEAN : SetAccelerationManagement(on)
    \/ StoreAccelerationManagement

Next == Producer \/ StepperAdvance

Spec == Init /\ [][Next]_vars

\* plan_buffer_line leaves the wait for room: what a Build step does to pc.
LeavesWait ==
    /\ pc = "wait"
    /\ ~BufferFull(block_buffer_tail, next_buffer_head)
    /\ pc' \in {"idle", "publish"}

\* The foreground program goes on once the wait for room is over, up to the
\* store of head, and the stepper interrupt goes on through the queue.
FairSpec ==
    Spec /\ WF_pc(LeavesWait) /\ WF_vars(Publish) /\ WF_vars(StepperAdvance)

(***************************************************************************)
(* The queue as the stepper sees it.                                       *)
(***************************************************************************)
\* Blocks between tail and head.
QueueLength(tail, head) == (head + BLOCK_BUFFER_SIZE - tail) % BLOCK_BUFFER_SIZE

\* The k-th queued slot, from tail.
QueuedSlot(tail, k) == (tail + k) % BLOCK_BUFFER_SIZE

\* The slots tail .. head-1.
QueuedSlots(tail, head) ==
    { QueuedSlot(tail, k) : k \in 0 .. (QueueLength(tail, head) - 1) }

(***************************************************************************)
(* C1.  The producer never moves head onto tail: head = tail only when no  *)
(* block is queued, the producer about to store head does not store tail's *)
(* value, and at most BLOCK_BUFFER_SIZE - 1 blocks are queued.             *)
(***************************************************************************)
C1_HeadNeverReachesTail ==
    /\ (block_buffer_head = block_buffer_tail) <=> (queued = 0)
    /\ queued = QueueLength(block_buffer_tail, block_buffer_head)
    /\ queued <= BLOCK_BUFFER_SIZE - 1
    /\ pc = "publish" => next_buffer_head # block_buffer_tail

\* A call is parked on the full queue.
C1_Witness ==
    /\ pc = "wait"
    /\ block_buffer_tail = next_buffer_head
    /\ queued = BLOCK_BUFFER_SIZE - 1

(***************************************************************************)
(* C2.  When plan_buffer_line returns with acceleration management on, the *)
(* block at tail has entry_factor 0.                                       *)
(***************************************************************************)
C2_TailStartsFromRest ==
    [][(pc = "trapezoids" /\ pc' = "idle"
          /\ block_buffer_head' # block_buffer_tail')
       => block_buffer'[block_buffer_tail'].entry_factor = R(0)]_vars

(***************************************************************************)
(* C3.  After plan_buffer_line has returned, every queued block has        *)
(* 0 <= accelerate_until <= decelerate_after <= step_event_count.          *)
(***************************************************************************)
C3_TrapezoidOrdered ==
    pc = "idle" =>
        \A s \in QueuedSlots(block_buffer_tail, block_buffer_head) :
            /\ 0 <= block_buffer[s].accelerate_until
            /\ block_buffer[s].accelerate_until
                   <= block_buffer[s].decelerate_after
            /\ block_buffer[s].decelerate_after
                   <= block_buffer[s].step_event_count

(***************************************************************************)
(* C4.  The call calculate_trapezoid_for_block(block, entry, 0.0) that     *)
(* ends planner_recalculate_trapezoids sets initial_rate to                *)
(* ceil(nominal_rate * entry) and brakes to the exit rate: with entry 1.0  *)
(* on a block long enough to brake to rest, decelerate_after is less than  *)
(* step_event_count.                                                       *)
(***************************************************************************)
C4_BrakesToExitRate ==
    [][(pc = "trapezoids" /\ pc' = "idle"
          /\ block_buffer_head # block_buffer_tail)
       => LET last == QueuedSlot(block_buffer_head, BLOCK_BUFFER_SIZE - 1)
              before == block_buffer[last]
              after == block_buffer'[last]
              braking ==
                  Ceil(estimate_acceleration_distance(
                           R(before.nominal_rate), R(0),
                           R(0 - before.rate_delta
                                   * ACCELERATION_TICKS_PER_SECOND * 60)))
          IN  /\ after.initial_rate =
                     Ceil(RMul(R(before.nominal_rate), before.entry_factor))
              /\ (before.entry_factor = R(1) /\ before.rate_delta > 0
                      /\ braking <= before.step_event_count)
                 => after.decelerate_after < after.step_event_count]_vars

(***************************************************************************)
(* C5.  While blocks are queued, no step of planner_recalculate changes    *)
(* initial_rate, accelerate_until or decelerate_after of the block at      *)
(* tail.                                                                   *)
(***************************************************************************)
C5_TailProfileUntouched ==
    [][(pc \in {"reverse", "forward", "trapezoids"}
          /\ block_buffer_head # block_buffer_tail)
       => LET before == block_buffer[block_buffer_tail]
              after == block_buffer'[block_buffer_tail]
          IN  /\ after.initial_rate = before.initial_rate
              /\ after.accelerate_until = before.accelerate_until
              /\ after.decelerate_after = before.decelerate_after]_vars

(***************************************************************************)
(* C6.  With three or more blocks queued, for two adjacent blocks the      *)
(* reverse pass has taken as a pair, moving along X only in opposite       *)
(* directions at the same speed v with 2v above max_jerk, the junction     *)
(* jerk is 2v and the later block's entry_factor is at most                *)
(* max_jerk / (2v).                                                        *)
(***************************************************************************)
C6_ReversalJerk ==
    (pc = "forward"
       /\ QueueLength(block_buffer_tail, block_buffer_head) >= 3)
    => \A k \in 2 .. (QueueLength(block_buffer_tail, block_buffer_head) - 1) :
           LET before == block_buffer[QueuedSlot(block_buffer_tail, k - 1)]
               after == block_buffer[QueuedSlot(block_buffer_tail, k)]
               twice == RMul(R(2), after.nominal_speed)
           IN  (/\ before.steps_y = 0 /\ before.steps_z = 0
                /\ after.steps_y = 0 /\ after.steps_z = 0
                /\ before.direction_bits # after.direction_bits
                /\ before.nominal_speed = after.nominal_speed
                /\ RGreater(twice, R(settings.max_jerk)))
               => /\ junction_jerk(before, after) = twice
                  /\ ~RGreater(after.entry_factor,
                               RDiv(R(settings.max_jerk), twice))

(***************************************************************************)
(* C7.  After two calls for the same move into an empty, never used queue  *)
(* with acceleration management on, the second block's entry_factor is     *)
(* 1.0.                                                                    *)
(***************************************************************************)
C7_ColinearKeepsSpeed ==
    (/\ pc = "idle"
     /\ acceleration_management
     /\ block_buffer_tail = 0
     /\ block_buffer_head = 2
     /\ block_buffer[BLOCK_BUFFER_SIZE - 1] = ZeroBlock
     /\ block_buffer[0].rate_delta > 0
     /\ block_buffer[1].rate_delta > 0
     /\ block_buffer[0].steps_x = block_buffer[1].steps_x
     /\ block_buffer[0].steps_y = block_buffer[1].steps_y
     /\ block_buffer[0].steps_z = block_buffer[1].steps_z
     /\ block_buffer[0].direction_bits = block_buffer[1].direction_bits
     /\ block_buffer[0].nominal_speed = block_buffer[1].nominal_speed)
    => block_buffer[1].entry_factor = R(1)

(***************************************************************************)
(* C8.  A plan_buffer_line call with all three step deltas zero returns    *)
(* with head and tail as they were and without planner_recalculate, and    *)
(* every queued block has step_event_count > 0 in every reachable state.   *)
(***************************************************************************)
C8_ZeroLengthAdmitsNothing ==
    /\ [](\A s \in QueuedSlots(block_buffer_tail, block_buffer_head) :
              block_buffer[s].step_event_count > 0)
    /\ [][(/\ pc = "wait"
           /\ line.steps_x = 0 /\ line.steps_y = 0 /\ line.steps_z = 0
           /\ pc' # "wait")
          => /\ pc' = "idle"
             /\ block_buffer_head' = block_buffer_head
             /\ block_buffer_tail' = block_buffer_tail
             /\ queued' = queued]_vars

\* A zero-length call has returned with blocks queued.
C8_Witness ==
    /\ pc = "idle"
    /\ line # NoLine
    /\ line.steps_x = 0 /\ line.steps_y = 0 /\ line.steps_z = 0
    /\ queued > 0

(***************************************************************************)
(* C9.  Under weak fairness of the stepper, a plan_buffer_line call for a  *)
(* non-zero move that finds the queue full is eventually admitted: head is *)
(* moved to the call's next_buffer_head.                                   *)
(***************************************************************************)
C9_ParkedCallAdmitted ==
    (/\ pc = "wait"
     /\ block_buffer_tail = next_buffer_head
     /\ (line.steps_x # 0 \/ line.steps_y # 0 \/ line.steps_z # 0))
    ~> (parked /\ block_buffer_head = next_buffer_head)

\* A call that found the queue full has moved head.
C9_Witness ==
    /\ parked
    /\ pc \in {"reverse", "constant"}
    /\ block_buffer_head = next_buffer_head

(***************************************************************************)
(* C10.  Without acceleration management the store to block_buffer_head is *)
(* the last write to the new block: no step changes a queued block.        *)
(***************************************************************************)
C10_HeadStoredLast ==
    [][~acceleration_management
       => \A s \in QueuedSlots(block_buffer_tail, block_buffer_head) :
              block_buffer'[s] = block_buffer[s]]_vars

(***************************************************************************)
(* planner_recalculate as one call that nothing interrupts, on a queue     *)
(* that does not wrap (tail <= head), where the reverse pass stays inside  *)
(* the buffer.                                                             *)
(***************************************************************************)
\* buf after planner_reverse_pass_kernel(previous, current, next) on
\* pointers into the buffer.
ReverseKernelIn(buf, previous, current, nxt) ==
    IF InBuffer(current)
    THEN [buf EXCEPT ![current[1]].entry_factor =
             planner_reverse_pass_kernel(previous # NULL,
                 Deref(buf, previous, ZeroBlock), buf[current[1]],
                 nxt # NULL, Deref(buf, nxt, ZeroBlock))]
    ELSE buf

\* The loop of planner_reverse_pass from index i with window w, and the call
\* planner_reverse_pass_kernel(NULL, block[0], block[1]) after it.
RECURSIVE ReverseFrom(_, _, _, _)
ReverseFrom(buf, i, w, tail) ==
    IF i # tail
    THEN LET w2 == ReverseShift(w, i)
         IN  ReverseFrom(ReverseKernelIn(buf, w2[1], w2[2], w2[3]),
                         ReverseStep(i), w2, tail)
    ELSE ReverseKernelIn(buf, NULL, w[1], w[2])

planner_reverse_pass(buf, tail, head) ==
    ReverseFrom(buf, head, NoWindow, tail)

\* planner_recalculate(): sp is what the reads through NULL find, g what
\* (int32_t)NaN gives.
planner_recalculate(buf, tail, head, sp, g) ==
    planner_recalculate_trapezoids(
        planner_forward_pass(planner_reverse_pass(buf, tail, head),
                             tail, head, sp),
        tail, head, g)

\* The fields of a block the plan decides.
Planned(b) ==
    <<b.entry_factor, b.initial_rate, b.accelerate_until, b.decelerate_after>>

(***************************************************************************)
(* C11.  A second planner_recalculate right after the one that ends        *)
(* plan_buffer_line, with no block admitted and tail not moved in between, *)
(* leaves entry_factor, initial_rate, accelerate_until and                 *)
(* decelerate_after of every queued block as the first call left them.     *)
(***************************************************************************)
C11_RecalculateTwice ==
    [][(/\ pc = "trapezoids" /\ pc' = "idle"
        /\ block_buffer_tail' < block_buffer_head')
       => \A sp \in StrayReads, g \in NaNToInt32 :
              LET again == planner_recalculate(block_buffer',
                               block_buffer_tail', block_buffer_head', sp, g)
              IN  \A s \in QueuedSlots(block_buffer_tail', block_buffer_head') :
                      Planned(again[s]) = Planned(block_buffer'[s])]_vars

(***************************************************************************)
(* C12.  acceleration_management changes only in the step that follows the *)
(* return of st_synchronize, with the queue empty; a call that asks for    *)
(* the value the flag already has does not synchronize and changes         *)
(* nothing; and every queued block was built under the flag's current      *)
(* value (plan_buffer_line leaves rate_delta at 0 exactly in a block built *)
(* without acceleration management).                                       *)
(***************************************************************************)
C12_SwitchOnlyWhenDrained ==
    /\ [](/\ pc = "sync_enable" => ~acceleration_management
          /\ pc = "sync_disable" => acceleration_management
          /\ \A s \in QueuedSlots(block_buffer_tail, block_buffer_head) :
                 (block_buffer[s].rate_delta = 0) <=> ~acceleration_management)
    /\ [][/\ acceleration_management' # acceleration_management
             => /\ pc \in {"sync_enable", "sync_disable"}
                /\ block_buffer_head = block_buffer_tail
                /\ block_buffer_head' = block_buffer_tail'
          /\ (pc = "idle" /\ pc' = "idle" /\ calls' # calls)
             => UNCHANGED <<block_buffer, block_buffer_head,
                            block_buffer_tail, acceleration_management>>]_vars

\* Acceleration management was switched off and on again: blocks are queued
\* under it, and a slot still holds a block built without it.
C12_Witness ==
    /\ acceleration_management
    /\ queued > 0
    /\ \E s \in Slots : /\ block_buffer[s].step_event_count > 0
                        /\ block_buffer[s].rate_delta = 0

\* junction_jerk between the queued blocks k-1 and k from tail, scaled by the
\* later block's entry_factor.
ScaledJerk(k) ==
    LET before == block_buffer[QueuedSlot(block_buffer_tail, k - 1)]
        after == block_buffer[QueuedSlot(block_buffer_tail, k)]
    IN  RMul(junction_jerk(before, after), after.entry_factor)

(***************************************************************************)
(* C13.  When plan_buffer_line has returned with acceleration management   *)
(* on, for every two adjacent queued blocks the junction_jerk of their     *)
(* stored speeds times the later block's entry_factor is at most           *)
(* settings.max_jerk.                                                      *)
(***************************************************************************)
C13_JunctionJerkBounded ==
    (pc = "idle" /\ acceleration_management)
    => \A k \in 1 .. (QueueLength(block_buffer_tail, block_buffer_head) - 1) :
           /\ ~IsNaN(ScaledJerk(k))
           /\ ~RGreater(ScaledJerk(k), R(settings.max_jerk))

\* A call has returned with two adjacent queued blocks whose junction_jerk is
\* above max_jerk.
C13_Witness ==
    /\ pc = "idle"
    /\ acceleration_management
    /\ \E k \in 1 .. (QueueLength(block_buffer_tail, block_buffer_head) - 1) :
           RGreater(junction_jerk(
                        block_buffer[QueuedSlot(block_buffer_tail, k - 1)],
                        block_buffer[QueuedSlot(block_buffer_tail, k)]),
                    R(settings.max_jerk))

\* The indices at which planner_reverse_pass addresses block_buffer in its
\* first turns of the loop, at most `turns` of them, from index i and with
\* tail as it is when the pass starts.
RECURSIVE ReverseIndices(_, _, _)
ReverseIndices(i, tail, turns) ==
    IF i = tail \/ turns = 0 THEN <<>>
    ELSE <<i>> \o ReverseIndices(ReverseStep(i), tail, turns - 1)

(***************************************************************************)
(* C14.  For the head and tail it starts with, planner_reverse_pass ends   *)
(* after at most BLOCK_BUFFER_SIZE turns of its loop, the queue wrapped    *)
(* (head < tail) or not, and every index it addresses block_buffer at is   *)
(* in 0 .. BLOCK_BUFFER_SIZE - 1.                                          *)
(***************************************************************************)
C14_ReversePassInBounds ==
    [][(pc = "publish" /\ pc' = "reverse")
       => LET visited == ReverseIndices(block_buffer_head', block_buffer_tail',
                                        BLOCK_BUFFER_SIZE + 1)
          IN  /\ Len(visited) <= BLOCK_BUFFER_SIZE
              /\ \A j \in 1 .. Len(visited) : visited[j] \in Slots]_vars

(***************************************************************************)
(* C15.  No step of planner_recalculate writes the slot at head, which     *)
(* holds no queued block, and the reverse pass takes the last queued       *)
(* block, the one before head, as current with next NULL.                  *)
(***************************************************************************)
C15_SentinelLeftAlone ==
    [][(pc \in {"reverse", "forward", "trapezoids"})
       => /\ block_buffer'[block_buffer_head] = block_buffer[block_buffer_head]
          /\ (block' # block
                /\ block'[2] = Ptr(QueuedSlot(block_buffer_head,
                                              BLOCK_BUFFER_SIZE - 1)))
             => (block'[3] = NULL)]_vars

\* The calls planner_forward_pass makes, each the window <<previous, current,
\* next>> it passes to planner_forward_pass_kernel: those of the loop from
\* index i with window w, then the call after the loop.
RECURSIVE ForwardCalls(_, _, _)
ForwardCalls(i, w, head) ==
    IF i # head
    THEN <<ForwardShift(w, i)>>
         \o ForwardCalls((i + 1) % BLOCK_BUFFER_SIZE, ForwardShift(w, i), head)
    ELSE << <<w[2], w[3], NULL>> >>

(***************************************************************************)
(* C16.  With one or more blocks queued, planner_forward_pass calls its    *)
(* kernel with a NULL previous only when current is NULL too, where the    *)
(* kernel returns before it reads previous, and the pass leaves the        *)
(* entry_factor of the block at tail as it was.                            *)
(***************************************************************************)
C16_ForwardReadsNoNull ==
    [][(pc = "forward" /\ pc' = "trapezoids"
          /\ block_buffer_head # block_buffer_tail)
       => LET made == ForwardCalls(block_buffer_tail, NoWindow,
                                   block_buffer_head)
          IN  /\ \A j \in 1 .. Len(made) :
                     (made[j][2] # NULL) => (made[j][1] # NULL)
              /\ block_buffer'[block_buffer_tail].entry_factor
                     = block_buffer[block_buffer_tail].entry_factor]_vars

(***************************************************************************)
(* C17.  planner_forward_pass raises no entry_factor: every queued block's *)
(* entry_factor after the pass is less than or equal to what it was after  *)
(* the reverse pass.                                                       *)
(***************************************************************************)
C17_ForwardOnlyLowers ==
    [][(pc = "forward" /\ pc' = "trapezoids")
       => \A s \in QueuedSlots(block_buffer_tail, block_buffer_head) :
              /\ ~IsNaN(block_buffer[s].entry_factor)
              /\ ~IsNaN(block_buffer'[s].entry_factor)
              /\ ~RGreater(block_buffer'[s].entry_factor,
                           block_buffer[s].entry_factor)]_vars

\* The forward pass is over and has lowered a queued block's entry_factor:
\* it is below what the reverse pass gives the block.
C17_Witness ==
    /\ pc = "trapezoids"
    /\ block_buffer_tail < block_buffer_head
    /\ \E s \in QueuedSlots(block_buffer_tail, block_buffer_head) :
           RLess(block_buffer[s].entry_factor,
                 planner_reverse_pass(block_buffer, block_buffer_tail,
                                      block_buffer_head)[s].entry_factor)

(***************************************************************************)
(* C18.  However the stepper moves tail while the producer is in           *)
(* planner_recalculate, planner_recalculate_trapezoids finds a queued      *)
(* block: its loop runs at least once, so that the call                    *)
(* calculate_trapezoid_for_block(next, next->entry_factor, 0.0) that ends  *)
(* it is not made with next NULL.                                          *)
(***************************************************************************)
C18_TrapezoidsFindABlock ==
    [][(pc = "trapezoids" /\ pc' = "idle")
       => /\ block_buffer_tail # block_buffer_head
          /\ QueueLength(block_buffer_tail, block_buffer_head) >= 1]_vars

=============================================================================
